---- MODULE Spec2Model ----
(***************************************************************************)
(* Verification model of the two CUDA subsystems of the repository:        *)
(*   lab2/transpose_device.cu   the three matrix transpose kernels and the *)
(*                              host dispatcher cudaTranspose              *)
(*   lab3/src/fft_convolve.cu   the product-scale, maximum-reduction and   *)
(*                              divide kernels with their host launchers   *)
(* Threads are scheduled one statement group at a time, in any order that  *)
(* the block barriers (__syncthreads) allow.                               *)
(*                                                                         *)
(* Five specifications share the module:                                   *)
(*   SpecT     cudaTranspose and the whole grid of a launch, warp by warp, *)
(*             on a small matrix                                           *)
(*   SpecWide  one block of a transpose launch on a matrix of any valid    *)
(*             dimension, with the 32 bits of the kernels' int indices     *)
(*   SpecConv  the three launchers of fft_convolve.cu and the threads of   *)
(*             their launches, statement by statement, on short signals    *)
(*   SpecConvFair  SpecConv with the device never stopping while a step    *)
(*             can be taken                                                *)
(*   SpecHost  the launchers' float arithmetic on lengths up to and beyond *)
(*             2^24, where (float) padded_length stops being exact         *)
(***************************************************************************)
EXTENDS Integers, Sequences, FiniteSets, TLC

(***************************************************************************)
(* Transpose geometry.  The source fixes the strip of 4 rows per thread    *)
(* and a block of (64, 16) threads over a 64 x 64 tile staged in a         *)
(* [64][66] scratch array.  The model keeps the strip of 4 and the two     *)
(* padding columns and derives the rest from HalfDimY exactly as the       *)
(* source's numbers are related: blockDim.y = 2 * HalfDimY (16 = 2 * 8),   *)
(* tile = blockDim.x = 4 * blockDim.y (64), half tile = 32, row length =   *)
(* tile + 2 (66).  HalfDimY = 8 is the geometry of the source.             *)
(***************************************************************************)
StripLen == 4
PadCols == 2
HalfDimY == 1
GridDim == 2
MaxResident == 1

BlockDimY == 2 * HalfDimY
TileDim == StripLen * BlockDimY
BlockDimX == TileDim
HalfTile == TileDim \div 2
ShRows == TileDim
ShCols == TileDim + PadCols
MatN == TileDim * GridDim
\* A warp is the half row of a tile (32 threads in the source's geometry).
WarpSize == HalfTile

Variants == {"NAIVE", "SHMEM", "OPTIMAL"}
Unset == -1
Garbage == -2

TThreads == (0 .. BlockDimX - 1) \X (0 .. BlockDimY - 1)
TBlocks == (0 .. GridDim - 1) \X (0 .. GridDim - 1)
TWarps == 0 .. ((BlockDimX * BlockDimY) \div WarpSize) - 1

VARIABLES
    ttype,      \* the TransposeImplementation argument of cudaTranspose
    tpc,        \* host position: "call", "launched", "aborted"
    tlaunch,    \* the kernel launches issued: <<kernel, gridSize, blockSize>>
    input,      \* d_input, row-major, indexed by linear address
    output,     \* d_output, row-major, indexed by linear address
    resident,   \* blocks currently executing
    retired,    \* blocks that have finished
    staged,     \* per block: threads that have executed the code before the barrier
    wrote,      \* per block: threads that have executed the code after the barrier
    shared,     \* per block: the shared_mem cells written so far, <<row, col>> -> value
    tlog        \* per block and thread: the memory accesses performed, in order

tvars == <<ttype, tpc, tlaunch, input, output, resident, retired, staged, wrote,
           shared, tlog>>

VARIABLES
    hop,        \* host launcher called: "prod", "max" or "div"
    hpc,        \* "call" before the launcher runs, "done" after it returned
    hlen,       \* padded_length
    hblocks,    \* blocks
    hthreads,   \* threadsPerBlock
    hcount      \* what the launcher computed: work_per_thread (N) or num_calls

hvars == <<hop, hpc, hlen, hblocks, hthreads, hcount>>

VARIABLES
    cop,        \* launcher called: "prod", "max" or "div"
    cpc,        \* "call" before the launcher runs, "running" while its launches
                \* execute, "done" when the last one has completed
    clen,       \* padded_length
    cblocks,    \* blocks
    cthreads,   \* threadsPerBlock
    craw,       \* raw_data, index -> <<x, y>>
    cimp,       \* impulse_v, index -> <<x, y>>
    cout,       \* out_data, index -> <<x, y>>
    cout0,      \* out_data as it was when the launcher was called
    gmax,       \* the float max_abs_val points to (GlobalMax)
    gmax0,      \* GlobalMax as it was when the launcher was called
    cdiv,       \* the max_abs_val argument of cudaCallDivideKernel
    cqueue,     \* launches issued and not yet started, in stream order
    claunch,    \* the launch executing, or NoLaunch
    nlaunch,    \* launches started so far
    th,         \* <<block, thread>> -> the thread's position and locals
    shmem,      \* block -> the block's dynamic shared array
    ctouch,     \* index -> the <<launch, block, thread>> that processed it, in order
    coob,       \* global accesses made at an index >= padded_length
    soob,       \* shared accesses made at an index >= blockDim.x
    slog,       \* the shared accesses of the launch executing
    props       \* the values proposed to atomicMax so far

cvars == <<cop, cpc, clen, cblocks, cthreads, craw, cimp, cout, cout0, gmax, gmax0,
           cdiv, cqueue, claunch, nlaunch, th, shmem, ctouch, coob, soob, slog, props>>

VARIABLES
    wn,         \* n, the matrix dimension passed to the kernel
    wkernel,    \* the kernel launched
    wblock,     \* blockIdx of the block followed
    wstaged,    \* warps of the block that have reached the barrier (or the end)
    wwrote,     \* warps of the block that have run the code after the barrier
    win,        \* the elements of d_input the block's addresses reach
    wout,       \* the elements of d_output the block's addresses reach
    wshared     \* the block's shared_mem cells written so far

wvars == <<wn, wkernel, wblock, wstaged, wwrote, win, wout, wshared>>

vars == <<tvars, hvars, cvars, wvars>>

(***************************************************************************)
(* Single-precision arithmetic of the host launchers of fft_convolve.cu.   *)
(* A float has a 24-bit significand: the conversion of an integer and the  *)
(* division round to the nearest representable value, ties to even.        *)
(***************************************************************************)
MantBits == 24

RECURSIVE Pow2(_)
Pow2(e) == IF e = 0 THEN 1 ELSE 2 * Pow2(e - 1)

\* The largest power of two that is <= x, for x >= 1.
RECURSIVE TopBit(_)
TopBit(x) == IF x < 2 THEN 1 ELSE 2 * TopBit(x \div 2)

\* (float) x for an integer x >= 0.
ToFloat(x) ==
    IF x < Pow2(MantBits) THEN x
    ELSE LET ulp == TopBit(x) \div Pow2(MantBits - 1)
             q == x \div ulp
             r == x % ulp
         IN  IF 2 * r > ulp \/ (2 * r = ulp /\ q % 2 = 1)
             THEN (q + 1) * ulp
             ELSE q * ulp

\* ceil(a / b) for floats a, b holding the integers a >= 0, b >= 1: the
\* quotient is rounded to a float before ceil sees it.
CeilFloatDiv(a, b) ==
    LET k == a \div b
        r == a % b
    IN  IF r = 0 THEN ToFloat(k)
        ELSE IF k = 0 THEN 1
        ELSE IF k >= Pow2(MantBits - 1)
             THEN \* the floats from 2^23 on are integers, ulp apart
                  LET ulp == TopBit(k) \div Pow2(MantBits - 1)
                      base == (k \div ulp) * ulp
                      num == (k - base) * b + r      \* (quotient - base) * b
                  IN  IF 2 * num > ulp * b \/ (2 * num = ulp * b /\ (base \div ulp) % 2 = 1)
                      THEN base + ulp
                      ELSE base
             ELSE \* the floats around k are 1/d apart, d = 2^23 / TopBit(k) >= 2;
                  \* the quotient k + r/b rounds down to k when r/b <= 1/(2d)
                  LET d == Pow2(MantBits - 1) \div TopBit(k)
                  IN  IF r <= b \div (2 * d) THEN k ELSE k + 1

\* int N = ceil((float) padded_length / (blocks * threadsPerBlock));
ProdWorkPerThread(len, blocks, threadsPerBlock) ==
    CeilFloatDiv(ToFloat(len), ToFloat(blocks * threadsPerBlock))

\* int offset = (blocks * threadsPerBlock * 2);
MaxOffset(blocks, threadsPerBlock) == blocks * threadsPerBlock * 2

\* int num_calls = ceil((float)padded_length / offset);
MaxNumCalls(len, blocks, threadsPerBlock) ==
    CeilFloatDiv(ToFloat(len), ToFloat(MaxOffset(blocks, threadsPerBlock)))

\* int num_threads = (blocks * threadsPerBlock);
DivNumThreads(blocks, threadsPerBlock) == blocks * threadsPerBlock

\* int num_calls = ceil((float)padded_length / num_threads);
DivNumCalls(len, blocks, threadsPerBlock) ==
    CeilFloatDiv(ToFloat(len), ToFloat(DivNumThreads(blocks, threadsPerBlock)))

\* The indices thread g (= blockIdx.x * blockDim.x + threadIdx.x) of
\* cudaProdScaleKernel writes, as <<first, last>> (first > last: none): the
\* loop starts at g * work_per_thread and advances by one in each of its
\* work_per_thread iterations that finds tidx <= padded_length - 1.
ProdScaleRun(g, len, wpt) ==
    LET first == g * wpt
        bound == IF first + wpt < len THEN first + wpt ELSE len
    IN  <<first, bound - 1>>

(***************************************************************************)
(* lab3/src/fft_convolve.cu: the kernels.  A float that holds a small      *)
(* integer is modelled by that integer; the inputs are chosen so that      *)
(* every quotient the kernels form is an integer too.                      *)
(***************************************************************************)
Abs(x) == IF x < 0 THEN -x ELSE x
Fmaxf(a, b) == IF a > b THEN a ELSE b
FDiv(x, d) == x \div d

NoLaunch == [kernel |-> "none", arg |-> 0]

\* The indices one thread of cudaProdScaleKernel writes, in order: the loop
\* of work_per_thread iterations from tidx on.
RECURSIVE ProdScaleLoop(_, _, _, _)
ProdScaleLoop(i, tidx, wpt, len) ==
    IF i < wpt
    THEN IF tidx <= len - 1
         THEN <<tidx>> \o ProdScaleLoop(i + 1, tidx + 1, wpt, len)
         ELSE ProdScaleLoop(i + 1, tidx, wpt, len)
    ELSE <<>>

\* The kernel without line 49: the threads are not spaced out.
cudaProdScaleKernel_NoSpacing(b, bd, t, wpt, len) ==
    LET tidx == b * bd + t
    IN  ProdScaleLoop(0, tidx, wpt, len)

cudaProdScaleKernel(b, bd, t, wpt, len) ==
    LET tidx == (b * bd + t) * wpt
    IN  ProdScaleLoop(0, tidx, wpt, len)

\* out_data[tidx] as lines 54-59 leave it.
ProdScaleValue(r, v, len) ==
    LET x == r[1] * v[1] - r[2] * v[2]
        y == r[1] * v[2] + r[2] * v[1]
    IN  <<FDiv(x, len), FDiv(y, len)>>

\* unsigned int idx = offset + blockIdx.x * blockDim.x + threadIdx.x;
DivideIdx(offset, b, bd, t) == offset + b * bd + t

\* A division that normalises both components.
DivideValue_Both(c, m) == <<FDiv(c[1], m), FDiv(c[2], m)>>

\* out_data[idx].x /= max_abs_val;
DivideValue(c, m) == <<FDiv(c[1], m), c[2]>>

\* unsigned int idx = offset + blockIdx.x * (blockDim.x * 2) + threadIdx.x;
MaxIdx(offset, b, bd, t) == offset + b * (bd * 2) + t

\* The value a thread stages: fmaxf(first, second), lines 136-151.
MaxStageValue(data, idx, bd, len) ==
    LET first == IF idx < len THEN Abs(data[idx][1]) ELSE 0
        second == IF idx + bd < len THEN Abs(data[idx + bd][1]) ELSE 0
    IN  Fmaxf(first, second)

\* int rem = blockDim.x % 2;  unsigned int s = blockDim.x / 2 + rem;
\* A plain halving, without the rounding up for an odd count.
FoldFirst_Floor(bd) == bd \div 2

FoldFirst(bd) == (bd \div 2) + (bd % 2)

\* rem = s % 2;  if (s == 1) rem = 0;  s = s / 2 + rem;
\* The rounding up without the exception for s = 1.
FoldNext_NoStop(s) == (s \div 2) + (s % 2)

FoldNext(s) == (s \div 2) + (IF s = 1 THEN 0 ELSE s % 2)

(***************************************************************************)
(* The launchers and the device.  The launches of one call go to the same  *)
(* stream: each starts when the one before it has completed.               *)
(***************************************************************************)
CBlockIds == 0 .. cblocks - 1
CThreadIds == 0 .. cthreads - 1
CThreads == CBlockIds \X CThreadIds

cudaCallProdScaleKernel ==
    /\ cpc = "call" /\ cop = "prod"
    /\ cqueue' = <<[kernel |-> "prod", arg |-> ProdWorkPerThread(clen, cblocks, cthreads)]>>
    /\ cpc' = "running"
    /\ UNCHANGED <<cop, clen, cblocks, cthreads, craw, cimp, cout, cout0, gmax, gmax0,
                   cdiv, claunch, nlaunch, th, shmem, ctouch, coob, soob, slog, props>>
    /\ UNCHANGED <<tvars, hvars, wvars>>

cudaCallMaximumKernel ==
    /\ cpc = "call" /\ cop = "max"
    /\ LET offset == MaxOffset(cblocks, cthreads)
           num_calls == MaxNumCalls(clen, cblocks, cthreads)
       IN  cqueue' = [i \in 1 .. num_calls |-> [kernel |-> "max", arg |-> (i - 1) * offset]]
    /\ cpc' = "running"
    /\ UNCHANGED <<cop, clen, cblocks, cthreads, craw, cimp, cout, cout0, gmax, gmax0,
                   cdiv, claunch, nlaunch, th, shmem, ctouch, coob, soob, slog, props>>
    /\ UNCHANGED <<tvars, hvars, wvars>>

cudaCallDivideKernel ==
    /\ cpc = "call" /\ cop = "div"
    /\ LET num_threads == DivNumThreads(cblocks, cthreads)
           num_calls == DivNumCalls(clen, cblocks, cthreads)
       IN  cqueue' = [i \in 1 .. num_calls |-> [kernel |-> "div", arg |-> (i - 1) * num_threads]]
    /\ cpc' = "running"
    /\ UNCHANGED <<cop, clen, cblocks, cthreads, craw, cimp, cout, cout0, gmax, gmax0,
                   cdiv, claunch, nlaunch, th, shmem, ctouch, coob, soob, slog, props>>
    /\ UNCHANGED <<tvars, hvars, wvars>>

ThreadStart == [pc |-> "start", s |-> 0, nbar |-> 0, val |-> 0, old |-> 0]

\* The device starts the next launch of the stream.
LaunchStart ==
    /\ cpc = "running" /\ claunch = NoLaunch /\ cqueue # <<>>
    /\ claunch' = Head(cqueue)
    /\ cqueue' = Tail(cqueue)
    /\ nlaunch' = nlaunch + 1
    /\ th' = [bt \in CThreads |-> ThreadStart]
    /\ shmem' = [b \in CBlockIds |-> [i \in CThreadIds |-> Garbage]]
    /\ slog' = {}
    /\ UNCHANGED <<cop, cpc, clen, cblocks, cthreads, craw, cimp, cout, cout0, gmax,
                   gmax0, cdiv, ctouch, coob, soob, props>>
    /\ UNCHANGED <<tvars, hvars, wvars>>

\* Every thread of the launch has returned.
LaunchEnd ==
    /\ cpc = "running" /\ claunch # NoLaunch
    /\ \A bt \in CThreads : th[bt].pc = "done"
    /\ claunch' = NoLaunch
    /\ cpc' = IF cqueue = <<>> THEN "done" ELSE "running"
    /\ UNCHANGED <<cop, clen, cblocks, cthreads, craw, cimp, cout, cout0, gmax, gmax0,
                   cdiv, cqueue, nlaunch, th, shmem, ctouch, coob, soob, slog, props>>
    /\ UNCHANGED <<tvars, hvars, wvars>>

\* ctouch after the thread processed the indices of seq.
RECURSIVE Touched(_, _, _)
Touched(touch, seq, who) ==
    IF seq = <<>> THEN touch
    ELSE Touched(IF Head(seq) \in DOMAIN touch
                 THEN [touch EXCEPT ![Head(seq)] = Append(@, who)]
                 ELSE touch,
                 Tail(seq), who)

\* out_data after cudaProdScaleKernel processed the indices of seq.
RECURSIVE ProdWritten(_, _)
ProdWritten(out, seq) ==
    IF seq = <<>> THEN out
    ELSE ProdWritten(IF Head(seq) \in DOMAIN out
                     THEN [out EXCEPT ![Head(seq)] =
                              ProdScaleValue(craw[Head(seq)], cimp[Head(seq)], clen)]
                     ELSE out,
                     Tail(seq))

SeqRange(seq) == {seq[x] : x \in 1 .. Len(seq)}

\* A thread of cudaProdScaleKernel, from entry to return.
ProdThread(b, t) ==
    /\ claunch.kernel = "prod"
    /\ <<b, t>> \in CThreads
    /\ th[<<b, t>>].pc = "start"
    /\ LET seq == cudaProdScaleKernel(b, cthreads, t, claunch.arg, clen)
       IN  /\ cout' = ProdWritten(cout, seq)
           /\ ctouch' = Touched(ctouch, seq, <<nlaunch, b, t>>)
           /\ coob' = coob \cup {<<"prod", i>> : i \in {j \in SeqRange(seq) : j >= clen}}
    /\ th' = [th EXCEPT ![<<b, t>>].pc = "done"]
    /\ UNCHANGED <<cop, cpc, clen, cblocks, cthreads, craw, cimp, cout0, gmax, gmax0,
                   cdiv, cqueue, claunch, nlaunch, shmem, soob, slog, props>>
    /\ UNCHANGED <<tvars, hvars, wvars>>

\* A thread of cudaDivideKernel, from entry to return.
DivideThread(b, t) ==
    /\ claunch.kernel = "div"
    /\ <<b, t>> \in CThreads
    /\ th[<<b, t>>].pc = "start"
    /\ LET idx == DivideIdx(claunch.arg, b, cthreads, t)
       IN  IF idx \in DOMAIN cout
           THEN /\ cout' = [cout EXCEPT ![idx] = DivideValue(@, cdiv)]
                /\ ctouch' = [ctouch EXCEPT ![idx] = Append(@, <<nlaunch, b, t>>)]
                /\ UNCHANGED coob
           ELSE /\ coob' = coob \cup {<<"div", idx>>}
                /\ UNCHANGED <<cout, ctouch>>
    /\ th' = [th EXCEPT ![<<b, t>>].pc = "done"]
    /\ UNCHANGED <<cop, cpc, clen, cblocks, cthreads, craw, cimp, cout0, gmax, gmax0,
                   cdiv, cqueue, claunch, nlaunch, shmem, soob, slog, props>>
    /\ UNCHANGED <<tvars, hvars, wvars>>

\* A read or a write of shmem[cell] by thread t of block b that has passed
\* nbar barriers.
SReadAt(b, t, cell, nbar) == [b |-> b, t |-> t, cell |-> cell, op |-> "r", nbar |-> nbar]
SWriteAt(b, t, cell, nbar) == [b |-> b, t |-> t, cell |-> cell, op |-> "w", nbar |-> nbar]

\* The out_data indices a thread of cudaMaximumKernel reads while staging.
MaxStageReads(idx, bd, len) ==
    (IF idx < len THEN <<idx>> ELSE <<>>) \o (IF idx + bd < len THEN <<idx + bd>> ELSE <<>>)

\* A thread of cudaMaximumKernel from entry to the first __syncthreads().
MaxStage(b, t) ==
    /\ claunch.kernel = "max"
    /\ <<b, t>> \in CThreads
    /\ th[<<b, t>>].pc = "start"
    /\ LET idx == MaxIdx(claunch.arg, b, cthreads, t)
           reads == MaxStageReads(idx, cthreads, clen)
       IN  /\ shmem' = [shmem EXCEPT ![b][t] = MaxStageValue(cout, idx, cthreads, clen)]
           /\ ctouch' = Touched(ctouch, reads, <<nlaunch, b, t>>)
           /\ coob' = coob \cup {<<"max", i>> : i \in {j \in SeqRange(reads) : j >= clen}}
    /\ slog' = slog \cup {SWriteAt(b, t, t, th[<<b, t>>].nbar)}
    /\ th' = [th EXCEPT ![<<b, t>>].pc = "fold", ![<<b, t>>].nbar = 1]
    /\ UNCHANGED <<cop, cpc, clen, cblocks, cthreads, craw, cimp, cout, cout0, gmax,
                   gmax0, cdiv, cqueue, claunch, nlaunch, soob, props>>
    /\ UNCHANGED <<tvars, hvars, wvars>>

\* A kernel without its barriers: a thread goes on at once.
AtBarrier_Missing(b, t) == TRUE

\* __syncthreads(): the thread leaves the barrier it has reached once every
\* thread of its block has reached it.
AtBarrier(b, t) ==
    \A u \in CThreadIds : th[<<b, u>>].nbar >= th[<<b, t>>].nbar

\* The values a read of an element past the end of the shared array may give.
OobVals == {0, 9}

\* A thread of cudaMaximumKernel from one __syncthreads() to the next: it
\* sets s (lines 154-155 after the first barrier, lines 162-164 after the
\* others), tests the loop condition, and either folds and reaches the
\* barrier of line 161, or leaves the loop and enters atomicMax, whose first
\* statement loads *address.
MaxFold(b, t) ==
    /\ claunch.kernel = "max"
    /\ <<b, t>> \in CThreads
    /\ th[<<b, t>>].pc = "fold"
    /\ AtBarrier(b, t)
    /\ LET me == th[<<b, t>>]
           s == IF me.nbar = 1 THEN FoldFirst(cthreads) ELSE FoldNext(me.s)
       IN  IF s > 0
           THEN /\ IF t < s
                   THEN \E other \in (IF t + s \in DOMAIN shmem[b]
                                      THEN {shmem[b][t + s]} ELSE OobVals) :
                           /\ shmem' = [shmem EXCEPT ![b][t] = Fmaxf(@, other)]
                           /\ soob' = IF t + s \in DOMAIN shmem[b] THEN soob
                                      ELSE soob \cup {<<b, t, t + s>>}
                           /\ slog' = slog \cup {SReadAt(b, t, t, me.nbar),
                                                  SReadAt(b, t, t + s, me.nbar),
                                                  SWriteAt(b, t, t, me.nbar)}
                   ELSE UNCHANGED <<shmem, soob, slog>>
                /\ th' = [th EXCEPT ![<<b, t>>].s = s, ![<<b, t>>].nbar = me.nbar + 1]
                /\ UNCHANGED props
           ELSE /\ th' = [th EXCEPT ![<<b, t>>].s = s, ![<<b, t>>].pc = "cas",
                                    ![<<b, t>>].val = shmem[b][0],
                                    ![<<b, t>>].old = gmax]
                /\ props' = props \cup {shmem[b][0]}
                /\ slog' = slog \cup {SReadAt(b, t, 0, me.nbar)}
                /\ UNCHANGED <<shmem, soob>>
    /\ UNCHANGED <<cop, cpc, clen, cblocks, cthreads, craw, cimp, cout, cout0, gmax,
                   gmax0, cdiv, cqueue, claunch, nlaunch, ctouch, coob>>
    /\ UNCHANGED <<tvars, hvars, wvars>>

\* A merge that stores the proposed value whatever the cell holds.
CasStore_Overwrite(val, assumed) == val

\* A merge that stores the smaller of the two values.
CasStore_Min(val, assumed) == IF val < assumed THEN val ELSE assumed

\* What atomicCAS(address, assumed, fmaxf(val, assumed)) stores.
CasStore(val, assumed) == Fmaxf(val, assumed)

\* The loop of atomicMax without the assignment to old: the value found by
\* a compare-and-swap that fails is forgotten.
MaxCas_StaleOld(b, t) ==
    /\ claunch.kernel = "max"
    /\ <<b, t>> \in CThreads
    /\ th[<<b, t>>].pc = "cas"
    /\ LET assumed == th[<<b, t>>].old
           found == gmax
       IN  /\ gmax' = IF found = assumed THEN CasStore(th[<<b, t>>].val, assumed) ELSE gmax
           /\ th' = [th EXCEPT ![<<b, t>>].pc = IF assumed = found THEN "done" ELSE "cas"]
    /\ UNCHANGED <<cop, cpc, clen, cblocks, cthreads, craw, cimp, cout, cout0, gmax0,
                   cdiv, cqueue, claunch, nlaunch, shmem, ctouch, coob, soob, slog, props>>
    /\ UNCHANGED <<tvars, hvars, wvars>>

\* One iteration of atomicMax's loop: assumed = old; old = atomicCAS(...);
\* the loop ends when the value found is the one assumed.
MaxCas(b, t) ==
    /\ claunch.kernel = "max"
    /\ <<b, t>> \in CThreads
    /\ th[<<b, t>>].pc = "cas"
    /\ LET assumed == th[<<b, t>>].old
           found == gmax
       IN  /\ gmax' = IF found = assumed THEN CasStore(th[<<b, t>>].val, assumed) ELSE gmax
           /\ th' = [th EXCEPT ![<<b, t>>].old = found,
                               ![<<b, t>>].pc = IF assumed = found THEN "done" ELSE "cas"]
    /\ UNCHANGED <<cop, cpc, clen, cblocks, cthreads, craw, cimp, cout, cout0, gmax0,
                   cdiv, cqueue, claunch, nlaunch, shmem, ctouch, coob, soob, slog, props>>
    /\ UNCHANGED <<tvars, hvars, wvars>>

(***************************************************************************)
(* The calls the model makes.                                              *)
(***************************************************************************)
MaxLen == 5
MaxBlocks == 2
MaxThreads == 4
MaxTotal == 4

Geoms == {g \in (1 .. MaxBlocks) \X (1 .. MaxThreads) : g[1] * g[2] <= MaxTotal}

\* raw_data and impulse_v: at length 1 the samples (2, 3) and (4, -1).
RawData(len) == [i \in 0 .. len - 1 |-> <<len * (2 + i), len * (3 + i)>>]
ImpData(len) == [i \in 0 .. len - 1 |-> <<4 + i, -1 - i>>]

\* Signals for the reduction: the real parts 1, -7, 3, 2 and, for every
\* position, a signal whose largest magnitude sits there, negative.
Signals(len) ==
    {[i \in 0 .. len - 1 |-> <<IF i = p THEN -7 ELSE (i % 3) + 1, 10 + i>>] : p \in 0 .. len - 1}
    \cup (IF len = 4 THEN {[i \in 0 .. 3 |-> <<<<1, -7, 3, 2>>[i + 1], 10 + i>>]} ELSE {})

\* A signal to normalise: real parts that the divisor divides.
DivData(len) == [i \in 0 .. len - 1 |-> <<(IF i % 2 = 0 THEN 16 ELSE -16) * (i + 1), 10 + i>>]

CInit ==
    /\ cop \in {"prod", "max", "div"}
    /\ clen \in 1 .. MaxLen
    /\ \E g \in Geoms : cblocks = g[1] /\ cthreads = g[2]
    /\ cpc = "call"
    /\ craw = IF cop = "prod" THEN RawData(clen) ELSE <<>>
    /\ cimp = IF cop = "prod" THEN ImpData(clen) ELSE <<>>
    /\ cout \in (CASE cop = "prod" -> {[i \in 0 .. clen - 1 |-> <<Unset, Unset>>]}
                   [] cop = "max" -> Signals(clen)
                   [] cop = "div" -> {DivData(clen)})
    /\ cout0 = cout
    /\ gmax \in (IF cop = "max" THEN {0, 2} ELSE {0})
    /\ gmax0 = gmax
    /\ cdiv \in (IF cop = "div" THEN {2, 4} ELSE {0})
    /\ cqueue = <<>>
    /\ claunch = NoLaunch
    /\ nlaunch = 0
    /\ th = <<>>
    /\ shmem = <<>>
    /\ ctouch = [i \in 0 .. clen - 1 |-> <<>>]
    /\ coob = {}
    /\ soob = {}
    /\ slog = {}
    /\ props = {}

CIdle ==
    /\ cop = "none" /\ cpc = "idle" /\ clen = 0 /\ cblocks = 0 /\ cthreads = 0
    /\ craw = <<>> /\ cimp = <<>> /\ cout = <<>> /\ cout0 = <<>>
    /\ gmax = 0 /\ gmax0 = 0 /\ cdiv = 0
    /\ cqueue = <<>> /\ claunch = NoLaunch /\ nlaunch = 0
    /\ th = <<>> /\ shmem = <<>> /\ ctouch = <<>>
    /\ coob = {} /\ soob = {} /\ slog = {} /\ props = {}

CAllThreads == (0 .. MaxBlocks - 1) \X (0 .. MaxThreads - 1)

CNext ==
    \/ cudaCallProdScaleKernel
    \/ cudaCallMaximumKernel
    \/ cudaCallDivideKernel
    \/ LaunchStart
    \/ LaunchEnd
    \/ \E bt \in CAllThreads : ProdThread(bt[1], bt[2])
    \/ \E bt \in CAllThreads : DivideThread(bt[1], bt[2])
    \/ \E bt \in CAllThreads : MaxStage(bt[1], bt[2])
    \/ \E bt \in CAllThreads : MaxFold(bt[1], bt[2])
    \/ \E bt \in CAllThreads : MaxCas(bt[1], bt[2])

CDone == cpc = "done"

(***************************************************************************)
(* The launchers' arithmetic on its own, for lengths up to and beyond the  *)
(* 2^24 where a float stops holding every integer.                         *)
(***************************************************************************)
HostLens ==
    (1 .. MaxLen) \cup {1000}
    \cup {Pow2(MantBits) + d : d \in -1 .. 3} \cup {5 * Pow2(MantBits - 2) + 1}
HostBlocks == (1 .. MaxBlocks) \cup {7}
HostThreads == (1 .. MaxThreads) \cup {13}

HInit ==
    /\ hop \in {"prod", "max", "div"}
    /\ hpc = "call"
    /\ hlen \in HostLens
    /\ hblocks \in HostBlocks
    /\ hthreads \in HostThreads
    /\ hcount = 0

HIdle ==
    /\ hop = "none" /\ hpc = "idle" /\ hlen = 0 /\ hblocks = 0 /\ hthreads = 0
    /\ hcount = 0

HostProdScale ==
    /\ hpc = "call" /\ hop = "prod"
    /\ hcount' = ProdWorkPerThread(hlen, hblocks, hthreads)
    /\ hpc' = "done"
    /\ UNCHANGED <<hop, hlen, hblocks, hthreads>>
    /\ UNCHANGED <<tvars, cvars, wvars>>

HostMaximum ==
    /\ hpc = "call" /\ hop = "max"
    /\ hcount' = MaxNumCalls(hlen, hblocks, hthreads)
    /\ hpc' = "done"
    /\ UNCHANGED <<hop, hlen, hblocks, hthreads>>
    /\ UNCHANGED <<tvars, cvars, wvars>>

HostDivide ==
    /\ hpc = "call" /\ hop = "div"
    /\ hcount' = DivNumCalls(hlen, hblocks, hthreads)
    /\ hpc' = "done"
    /\ UNCHANGED <<hop, hlen, hblocks, hthreads>>
    /\ UNCHANGED <<tvars, cvars, wvars>>

HNext == HostProdScale \/ HostMaximum \/ HostDivide

(***************************************************************************)
(* lab2/transpose_device.cu: the kernels, as the list of memory accesses   *)
(* one thread performs.  An access is a record with op "copy" (naive:      *)
(* output[dst] = input[src]), "stage" (shared_mem[row][col] = input[src])  *)
(* or "wb" (output[dst] = shared_mem[row][col]).                           *)
(***************************************************************************)
Copy(dst, src) == [op |-> "copy", dst |-> dst, src |-> src, row |-> 0, col |-> 0]
Stage(row, col, src) == [op |-> "stage", dst |-> 0, src |-> src, row |-> row, col |-> col]
Wb(dst, row, col) == [op |-> "wb", dst |-> dst, src |-> 0, row |-> row, col |-> col]

(***************************************************************************)
(* The kernels compute element indices in int (n, i and j are int).  The   *)
(* product n * j and the sum with i keep the 32 bits of int: a result      *)
(* outside the range wraps modulo 2^32.  IntMul takes 0 <= a, b < 2^16 and *)
(* builds the low 32 bits of the product from 16-bit halves.               *)
(***************************************************************************)
IntMax == 2147483647
Half16 == Pow2(16)

IntMul(a, b) ==
    LET x == (a \div 256) * b
        y == (a % 256) * b
        lo0 == (x % 256) * 256 + (y % Half16)
        hi0 == (x \div 256) + (y \div Half16) + (lo0 \div Half16)
        lo == lo0 % Half16
        hi == hi0 % Half16
    IN  IF hi >= Half16 \div 2 THEN (hi - Half16) * Half16 + lo ELSE hi * Half16 + lo

IntAdd(a, b) ==
    IF a >= 0 /\ b >= 0 /\ a > IntMax - b
    THEN ((a - IntMax) - 1) + ((b - IntMax) - 1)
    ELSE IF a < 0 /\ b < 0 /\ a < (-IntMax - 1) - b
    THEN ((a + IntMax) + 1) + ((b + IntMax) + 1)
    ELSE a + b

RECURSIVE NaiveLoop(_, _, _, _)
NaiveLoop(n, i, j, end_j) ==
    IF j < end_j
    THEN <<Copy(IntAdd(j, IntMul(n, i)), IntAdd(i, IntMul(n, j)))>> \o NaiveLoop(n, i, j + 1, end_j)
    ELSE <<>>

naiveTransposeKernel(n, tx, ty, bx, by) ==
    LET i == tx + TileDim * bx
        j == StripLen * ty + TileDim * by
        end_j == j + StripLen
    IN  NaiveLoop(n, i, j, end_j)

\* if (threadIdx.x > 31) shift += 1
StageShift(tx) == IF tx > HalfTile - 1 THEN 1 ELSE 0

\* if (threadIdx.y > 7) shift += 1
WritebackShift(ty) == IF ty > HalfDimY - 1 THEN 1 ELSE 0

RECURSIVE ShmemStageLoop(_, _, _, _, _, _, _)
ShmemStageLoop(n, tx, ty, i, j, end_j, k) ==
    IF j < end_j
    THEN <<Stage(StripLen * ty + k, tx + StageShift(tx), IntAdd(IntMul(j, n), i))>>
         \o ShmemStageLoop(n, tx, ty, i, j + 1, end_j, k + 1)
    ELSE <<>>

shmemStage(n, tx, ty, bx, by) ==
    LET i == tx + TileDim * bx
        j == StripLen * ty + TileDim * by
        end_j == j + StripLen
    IN  ShmemStageLoop(n, tx, ty, i, j, end_j, 0)

RECURSIVE ShmemWritebackLoop(_, _, _, _, _, _, _)
ShmemWritebackLoop(n, tx, ty, i, j, end_j, k) ==
    IF j < end_j
    THEN <<Wb(IntAdd(IntMul(n, j), i), tx, StripLen * ty + k + WritebackShift(ty))>>
         \o ShmemWritebackLoop(n, tx, ty, i, j + 1, end_j, k + 1)
    ELSE <<>>

shmemWriteback(n, tx, ty, bx, by) ==
    LET j == StripLen * ty + TileDim * bx
        i == tx + TileDim * by
        end_j == j + StripLen
    IN  ShmemWritebackLoop(n, tx, ty, i, j, end_j, 0)

optimalStage(n, tx, ty, bx, by) ==
    LET shift == StageShift(tx)
        i == tx + TileDim * bx
        j == StripLen * ty + TileDim * by
    IN  << Stage(StripLen * ty,     tx + shift, IntAdd(IntMul(j, n), i)),
           Stage(StripLen * ty + 1, tx + shift, IntAdd(IntMul(j + 1, n), i)),
           Stage(StripLen * ty + 2, tx + shift, IntAdd(IntMul(j + 2, n), i)),
           Stage(StripLen * ty + 3, tx + shift, IntAdd(IntMul(j + 3, n), i)) >>

\* The unrolled writeback with its third statement repeating the second row.
optimalWriteback_Slip(n, tx, ty, bx, by) ==
    LET j == StripLen * ty + TileDim * bx
        i == tx + TileDim * by
        shift == WritebackShift(ty)
    IN  << Wb(IntAdd(IntMul(n, j), i),     tx, StripLen * ty + shift),
           Wb(IntAdd(IntMul(n, j + 1), i), tx, StripLen * ty + 1 + shift),
           Wb(IntAdd(IntMul(n, j + 1), i), tx, StripLen * ty + 2 + shift),
           Wb(IntAdd(IntMul(n, j + 3), i), tx, StripLen * ty + 3 + shift) >>

optimalWriteback(n, tx, ty, bx, by) ==
    LET j == StripLen * ty + TileDim * bx
        i == tx + TileDim * by
        shift == WritebackShift(ty)
    IN  << Wb(IntAdd(IntMul(n, j), i),     tx, StripLen * ty + shift),
           Wb(IntAdd(IntMul(n, j + 1), i), tx, StripLen * ty + 1 + shift),
           Wb(IntAdd(IntMul(n, j + 2), i), tx, StripLen * ty + 2 + shift),
           Wb(IntAdd(IntMul(n, j + 3), i), tx, StripLen * ty + 3 + shift) >>

\* Whether the kernel has a __syncthreads() between two phases.
HasBarrier(kernel) == kernel \in {"shmemTransposeKernel", "optimalTransposeKernel"}

\* The accesses of thread t of block b before the barrier (all of them for
\* the naive kernel) and after it.
PreAccesses(kernel, n, t, b) ==
    CASE kernel = "naiveTransposeKernel" -> naiveTransposeKernel(n, t[1], t[2], b[1], b[2])
      [] kernel = "shmemTransposeKernel" -> shmemStage(n, t[1], t[2], b[1], b[2])
      [] kernel = "optimalTransposeKernel" -> optimalStage(n, t[1], t[2], b[1], b[2])

PostAccesses(kernel, n, t, b) ==
    CASE kernel = "shmemTransposeKernel" -> shmemWriteback(n, t[1], t[2], b[1], b[2])
      [] kernel = "optimalTransposeKernel" -> optimalWriteback(n, t[1], t[2], b[1], b[2])
      [] OTHER -> <<>>

(***************************************************************************)
(* Memory.  Global buffers hold MatN * MatN floats; an access outside them *)
(* reads Garbage and is dropped when written.  A shared cell that no       *)
(* thread of the block has written holds an indeterminate value.           *)
(***************************************************************************)
GRead(mem, a) == IF a \in DOMAIN mem THEN mem[a] ELSE Garbage
GWrite(mem, a, v) == IF a \in DOMAIN mem THEN [mem EXCEPT ![a] = v] ELSE mem
SRead(sh, row, col) == IF <<row, col>> \in DOMAIN sh THEN sh[<<row, col>>] ELSE Garbage
SWrite(sh, row, col, v) ==
    [c \in DOMAIN sh \cup {<<row, col>>} |-> IF c = <<row, col>> THEN v ELSE sh[c]]

\* The effect of a thread's accesses, in program order, on <<output, shared_mem>>.
RECURSIVE Exec(_, _, _, _)
Exec(acc, in, out, sh) ==
    IF acc = <<>> THEN <<out, sh>>
    ELSE LET a == Head(acc)
         IN  CASE a.op = "copy" -> Exec(Tail(acc), in, GWrite(out, a.dst, GRead(in, a.src)), sh)
               [] a.op = "stage" -> Exec(Tail(acc), in, out, SWrite(sh, a.row, a.col, GRead(in, a.src)))
               [] a.op = "wb" -> Exec(Tail(acc), in, GWrite(out, a.dst, SRead(sh, a.row, a.col)), sh)

\* What the log keeps of an access: the access, whether the shared cell it
\* reads had been written, and whether every thread of the block had passed
\* the barrier's staging side when it was made.
Logged(acc, sh, allStaged) ==
    [x \in 1 .. Len(acc) |->
        [acc |-> acc[x],
         written |-> (acc[x].op = "wb") => (<<acc[x].row, acc[x].col>> \in DOMAIN sh),
         synced |-> allStaged]]

NoShared == [c \in {} |-> 0]
NoLog == [t \in TThreads |-> <<>>]

(***************************************************************************)
(* cudaTranspose and the execution of the launched grid.                   *)
(***************************************************************************)
Launch(kernel, n) ==
    [kernel |-> kernel,
     grid |-> <<n \div TileDim, n \div TileDim>>,
     block |-> <<BlockDimX, BlockDimY>>,
     n |-> n]

\* cudaTranspose falling back to the naive kernel for an unknown type.
cudaTranspose_Fallback ==
    /\ tpc = "call"
    /\ IF ttype = "SHMEM"
       THEN tlaunch' = Append(tlaunch, Launch("shmemTransposeKernel", MatN))
       ELSE IF ttype = "OPTIMAL"
       THEN tlaunch' = Append(tlaunch, Launch("optimalTransposeKernel", MatN))
       ELSE tlaunch' = Append(tlaunch, Launch("naiveTransposeKernel", MatN))
    /\ tpc' = "launched"
    /\ UNCHANGED <<ttype, input, output, resident, retired, staged, wrote, shared, tlog>>
    /\ UNCHANGED <<hvars, cvars, wvars>>

cudaTranspose ==
    /\ tpc = "call"
    /\ IF ttype = "NAIVE"
       THEN /\ tlaunch' = Append(tlaunch, Launch("naiveTransposeKernel", MatN))
            /\ tpc' = "launched"
       ELSE IF ttype = "SHMEM"
       THEN /\ tlaunch' = Append(tlaunch, Launch("shmemTransposeKernel", MatN))
            /\ tpc' = "launched"
       ELSE IF ttype = "OPTIMAL"
       THEN /\ tlaunch' = Append(tlaunch, Launch("optimalTransposeKernel", MatN))
            /\ tpc' = "launched"
       ELSE /\ tpc' = "aborted"
            /\ UNCHANGED tlaunch
    /\ UNCHANGED <<ttype, input, output, resident, retired, staged, wrote, shared, tlog>>
    /\ UNCHANGED <<hvars, cvars, wvars>>

Kernel == tlaunch[1].kernel
KBlocks == (0 .. tlaunch[1].grid[1] - 1) \X (0 .. tlaunch[1].grid[2] - 1)
KThreads == (0 .. tlaunch[1].block[1] - 1) \X (0 .. tlaunch[1].block[2] - 1)

\* A kernel without the __syncthreads() call.
BarrierOpen_Missing(b) == TRUE

\* The barrier: a thread passes __syncthreads() once every thread of its
\* block has reached it.
BarrierOpen(b) == staged[b] = KThreads

Finished(b) == IF HasBarrier(Kernel) THEN wrote[b] = KThreads ELSE staged[b] = KThreads

\* The hardware starts a block of the grid.
BlockStart(b) ==
    /\ tpc = "launched"
    /\ b \in KBlocks \ (resident \cup retired)
    /\ Cardinality(resident) < MaxResident
    /\ resident' = resident \cup {b}
    /\ UNCHANGED <<ttype, tpc, tlaunch, input, output, retired, staged, wrote, shared, tlog>>
    /\ UNCHANGED <<hvars, cvars, wvars>>

\* The lanes of warp w, in lane order: the threads whose linear index
\* threadIdx.x + blockDim.x * threadIdx.y lies in w's WarpSize-aligned window.
Lanes(w) ==
    [l \in 1 .. WarpSize |->
        LET id == w * WarpSize + (l - 1)
        IN  <<id % tlaunch[1].block[1], id \div tlaunch[1].block[1]>>]

KWarps == 0 .. ((tlaunch[1].block[1] * tlaunch[1].block[2]) \div WarpSize) - 1

\* The accesses of all lanes of a warp for one phase, lane after lane.
RECURSIVE WarpAccesses(_, _, _, _)
WarpAccesses(phase, b, lanes, l) ==
    IF l > Len(lanes) THEN <<>>
    ELSE (IF phase = "pre"
          THEN PreAccesses(Kernel, tlaunch[1].n, lanes[l], b)
          ELSE PostAccesses(Kernel, tlaunch[1].n, lanes[l], b))
         \o WarpAccesses(phase, b, lanes, l + 1)

\* Two lanes of a warp storing to the same word in the same phase leave an
\* undefined value there.
Clash(acc, out, sh) ==
    LET gdup == {acc[x].dst : x \in {x \in DOMAIN acc : acc[x].op \in {"copy", "wb"}
                    /\ \E y \in DOMAIN acc : y # x /\ acc[y].op = acc[x].op
                                             /\ acc[y].dst = acc[x].dst}}
        sdup == {<<acc[x].row, acc[x].col>> : x \in {x \in DOMAIN acc : acc[x].op = "stage"
                    /\ \E y \in DOMAIN acc : y # x /\ acc[y].op = "stage"
                          /\ acc[y].row = acc[x].row /\ acc[y].col = acc[x].col}}
    IN  << IF gdup = {} THEN out
           ELSE [a \in DOMAIN out |-> IF a \in gdup THEN Garbage ELSE out[a]],
           IF sdup = {} THEN sh
           ELSE [c \in DOMAIN sh |-> IF c \in sdup THEN Garbage ELSE sh[c]] >>

WarpExec(phase, b, w) ==
    LET acc == WarpAccesses(phase, b, Lanes(w), 1)
        r == Exec(acc, input, output, shared[b])
    IN  Clash(acc, r[1], r[2])

LaneSet(w) == {Lanes(w)[l] : l \in 1 .. WarpSize}

\* Warp w of block b runs from kernel entry to the barrier (to the end, in
\* the naive kernel).
WarpPre(b, w) ==
    /\ tpc = "launched"
    /\ b \in resident
    /\ w \in KWarps
    /\ LaneSet(w) \cap staged[b] = {}
    /\ LET r == WarpExec("pre", b, w)
       IN  /\ output' = r[1]
           /\ shared' = [shared EXCEPT ![b] = r[2]]
    /\ tlog' = [tlog EXCEPT ![b] =
                  [t \in TThreads |->
                      IF t \in LaneSet(w)
                      THEN @[t] \o Logged(PreAccesses(Kernel, tlaunch[1].n, t, b),
                                          shared[b], FALSE)
                      ELSE @[t]]]
    /\ staged' = [staged EXCEPT ![b] = @ \cup LaneSet(w)]
    /\ UNCHANGED <<ttype, tpc, tlaunch, input, resident, retired, wrote>>
    /\ UNCHANGED <<hvars, cvars, wvars>>

\* Warp w of block b runs from the barrier to the end of the kernel.
WarpPost(b, w) ==
    /\ tpc = "launched"
    /\ b \in resident
    /\ w \in KWarps
    /\ HasBarrier(Kernel)
    /\ LaneSet(w) \subseteq staged[b]
    /\ LaneSet(w) \cap wrote[b] = {}
    /\ BarrierOpen(b)
    /\ LET r == WarpExec("post", b, w)
       IN  /\ output' = r[1]
           /\ shared' = [shared EXCEPT ![b] = r[2]]
    /\ tlog' = [tlog EXCEPT ![b] =
                  [t \in TThreads |->
                      IF t \in LaneSet(w)
                      THEN @[t] \o Logged(PostAccesses(Kernel, tlaunch[1].n, t, b),
                                          shared[b], staged[b] = KThreads)
                      ELSE @[t]]]
    /\ wrote' = [wrote EXCEPT ![b] = @ \cup LaneSet(w)]
    /\ UNCHANGED <<ttype, tpc, tlaunch, input, resident, retired, staged>>
    /\ UNCHANGED <<hvars, cvars, wvars>>

\* All threads of the block have returned: the block retires and its shared
\* memory is released.
BlockRetire(b) ==
    /\ tpc = "launched"
    /\ b \in resident
    /\ Finished(b)
    /\ resident' = resident \ {b}
    /\ retired' = retired \cup {b}
    /\ staged' = [staged EXCEPT ![b] = {}]
    /\ wrote' = [wrote EXCEPT ![b] = {}]
    /\ shared' = [shared EXCEPT ![b] = NoShared]
    /\ tlog' = [tlog EXCEPT ![b] = NoLog]
    /\ UNCHANGED <<ttype, tpc, tlaunch, input, output>>
    /\ UNCHANGED <<hvars, cvars, wvars>>

\* The matrix the caller passes: every element holds a distinct value, so
\* that the output tells which input element reached each position.
InputMatrix == [a \in 0 .. MatN * MatN - 1 |-> a + 1]

TInit ==
    /\ ttype \in Variants \cup {"UNKNOWN"}
    /\ tpc = "call"
    /\ tlaunch = <<>>
    /\ input = InputMatrix
    /\ output = [a \in 0 .. MatN * MatN - 1 |-> Unset]
    /\ resident = {}
    /\ retired = {}
    /\ staged = [b \in TBlocks |-> {}]
    /\ wrote = [b \in TBlocks |-> {}]
    /\ shared = [b \in TBlocks |-> NoShared]
    /\ tlog = [b \in TBlocks |-> NoLog]

TNext ==
    \/ cudaTranspose
    \/ \E b \in TBlocks : BlockStart(b)
    \/ \E b \in TBlocks : \E w \in TWarps : WarpPre(b, w)
    \/ \E b \in TBlocks : \E w \in TWarps : WarpPost(b, w)
    \/ \E b \in TBlocks : BlockRetire(b)

TIdle ==
    /\ ttype = "NONE" /\ tpc = "idle" /\ tlaunch = <<>>
    /\ input = <<>> /\ output = <<>>
    /\ resident = {} /\ retired = {}
    /\ staged = <<>> /\ wrote = <<>> /\ shared = <<>> /\ tlog = <<>>

(***************************************************************************)
(* One block of a launch on a matrix of any dimension n < 2^16 that is a   *)
(* multiple of 64.  The buffers are too large to hold whole: d_input and   *)
(* d_output are kept at the addresses the block's threads compute that lie *)
(* inside the n * n elements; input[a] holds a.  The barrier orders the    *)
(* two phases; within a phase the threads touch distinct cells.            *)
(***************************************************************************)
WideN == {64, 46336, 46400, 65472}

Kernels == {"naiveTransposeKernel", "shmemTransposeKernel", "optimalTransposeKernel"}

WideLanes(w) == [l \in 1 .. WarpSize |->
                    LET id == w * WarpSize + (l - 1)
                    IN  <<id % BlockDimX, id \div BlockDimX>>]

RECURSIVE WideAccesses(_, _, _, _, _, _)
WideAccesses(phase, kernel, n, b, lanes, l) ==
    IF l > Len(lanes) THEN <<>>
    ELSE (IF phase = "pre" THEN PreAccesses(kernel, n, lanes[l], b)
                          ELSE PostAccesses(kernel, n, lanes[l], b))
         \o WideAccesses(phase, kernel, n, b, lanes, l + 1)

InBuffer(n, a) == a >= 0 /\ a \div n < n

\* The addresses in the given field of the block's accesses of the given kinds.
Reached(kernel, n, b, field, ops) ==
    UNION {LET acc == WideAccesses("pre", kernel, n, b, WideLanes(w), 1)
                      \o WideAccesses("post", kernel, n, b, WideLanes(w), 1)
           IN  {acc[x][field] : x \in {y \in 1 .. Len(acc) : acc[y].op \in ops}}
           : w \in TWarps}

WInit ==
    /\ wn \in WideN
    /\ wkernel \in Kernels
    /\ wblock \in {0, (wn \div TileDim) - 1} \X {0, (wn \div TileDim) - 1}
    /\ wstaged = {}
    /\ wwrote = {}
    /\ win = [a \in {x \in Reached(wkernel, wn, wblock, "src", {"copy", "stage"}) :
                        InBuffer(wn, x)} |-> a]
    /\ wout = [a \in {x \in Reached(wkernel, wn, wblock, "dst", {"copy", "wb"}) :
                         InBuffer(wn, x)} |-> Unset]
    /\ wshared = NoShared

WIdle ==
    /\ wn = 0 /\ wkernel = "none" /\ wblock = <<0, 0>>
    /\ wstaged = {} /\ wwrote = {}
    /\ win = <<>> /\ wout = <<>> /\ wshared = <<>>

\* Warp w runs from kernel entry to the barrier (to the end, in the naive
\* kernel).
WideWarpPre(w) ==
    /\ wn > 0
    /\ w \notin wstaged
    /\ LET acc == WideAccesses("pre", wkernel, wn, wblock, WideLanes(w), 1)
           r == Exec(acc, win, wout, wshared)
           c == Clash(acc, r[1], r[2])
       IN  wout' = c[1] /\ wshared' = c[2]
    /\ wstaged' = wstaged \cup {w}
    /\ UNCHANGED <<wn, wkernel, wblock, wwrote, win>>
    /\ UNCHANGED <<tvars, hvars, cvars>>

\* Warp w runs from the barrier to the end of the kernel.
WideWarpPost(w) ==
    /\ wn > 0
    /\ HasBarrier(wkernel)
    /\ wstaged = TWarps
    /\ w \notin wwrote
    /\ LET acc == WideAccesses("post", wkernel, wn, wblock, WideLanes(w), 1)
           r == Exec(acc, win, wout, wshared)
           c == Clash(acc, r[1], r[2])
       IN  wout' = c[1] /\ wshared' = c[2]
    /\ wwrote' = wwrote \cup {w}
    /\ UNCHANGED <<wn, wkernel, wblock, wstaged, win>>
    /\ UNCHANGED <<tvars, hvars, cvars>>

WNext ==
    \/ \E w \in TWarps : WideWarpPre(w)
    \/ \E w \in TWarps : WideWarpPost(w)

WideDone ==
    /\ wn > 0
    /\ wstaged = TWarps
    /\ HasBarrier(wkernel) => wwrote = TWarps

InitWide == WInit /\ TIdle /\ HIdle /\ CIdle

SpecWide == InitWide /\ [][WNext]_vars

InitT == TInit /\ HIdle /\ CIdle /\ WIdle

SpecT == InitT /\ [][TNext]_vars

InitHost == HInit /\ TIdle /\ CIdle /\ WIdle

SpecHost == InitHost /\ [][HNext]_vars

InitConv == CInit /\ TIdle /\ HIdle /\ WIdle

SpecConv == InitConv /\ [][CNext]_vars

\* The device keeps running the threads of a launch and starts the launches
\* of the stream: some step that can be taken is eventually taken.
SpecConvFair == InitConv /\ [][CNext]_vars /\ WF_vars(CNext)

TAllDone == tpc = "launched" /\ retired = KBlocks

(***************************************************************************)
(* Properties of the transpose engine.                                     *)
(***************************************************************************)
Idx == 0 .. MatN - 1

\* C1 on a matrix whose element indices fit in int: for each of the three
\* variants, once every block of the grid has finished,
\* output[i][j] = input[j][i] for every (i, j), whatever the order in which
\* blocks and warps ran.
C1_TransposeCorrect ==
    TAllDone => \A i \in Idx : \A j \in Idx : output[i * MatN + j] = input[j * MatN + i]

C1_Witness ==
    /\ TAllDone
    /\ ttype = "SHMEM"
    /\ output[0 * MatN + (MatN - 1)] = input[(MatN - 1) * MatN + 0]

KernelOf(type) ==
    CASE type = "NAIVE" -> "naiveTransposeKernel"
      [] type = "SHMEM" -> "shmemTransposeKernel"
      [] type = "OPTIMAL" -> "optimalTransposeKernel"

\* C7: cudaTranspose with an unrecognised variant aborts, launches no kernel
\* and leaves the output buffer as it was; with a recognised variant it
\* launches exactly one kernel, the one of that variant, with the block
\* shape (blockDim.x, blockDim.y) and the grid (n / tile, n / tile).
C7_Dispatch ==
    tpc # "call" =>
        IF ttype \in Variants
        THEN /\ tpc = "launched"
             /\ Len(tlaunch) = 1
             /\ tlaunch[1].kernel = KernelOf(ttype)
             /\ tlaunch[1].block = <<BlockDimX, BlockDimY>>
             /\ tlaunch[1].grid = <<MatN \div TileDim, MatN \div TileDim>>
        ELSE /\ tpc = "aborted"
             /\ tlaunch = <<>>
             /\ resident = {} /\ retired = {}
             /\ \A a \in DOMAIN output : output[a] = Unset

C7_Witness == tpc = "aborted" /\ ttype = "UNKNOWN"

\* The accesses a log holds.
Accs(log) == [x \in 1 .. Len(log) |-> log[x].acc]

\* The output the naive kernel leaves: each element holds what the one copy
\* statement that targets it stores there.
NaiveCopies ==
    UNION { {naiveTransposeKernel(MatN, t[1], t[2], b[1], b[2])[x] : x \in 1 .. StripLen} :
            <<b, t>> \in TBlocks \X TThreads }

NaiveOutput ==
    [a \in 0 .. MatN * MatN - 1 |->
        LET hits == {c \in NaiveCopies : c.dst = a}
        IN  IF hits = {} THEN Unset
            ELSE IF Cardinality(hits) > 1 THEN Garbage
            ELSE GRead(input, (CHOOSE c \in hits : TRUE).src)]

\* C9: the three variants leave the same output for the same input (the
\* finished output of any variant is the output of the naive kernel), and a
\* thread of the unrolled Optimal kernel performs the very accesses, in the
\* same order, of the loops of the SharedMemory kernel.
C9_VariantsAgree ==
    /\ TAllDone => output = NaiveOutput
    /\ (tpc = "launched" /\ ttype = "OPTIMAL") =>
          \A b \in resident : \A t \in TThreads :
             /\ t \in staged[b] \ wrote[b] =>
                   Accs(tlog[b][t]) = shmemStage(MatN, t[1], t[2], b[1], b[2])
             /\ t \in wrote[b] =>
                   Accs(tlog[b][t]) = shmemStage(MatN, t[1], t[2], b[1], b[2])
                                      \o shmemWriteback(MatN, t[1], t[2], b[1], b[2])

C9_Witness ==
    /\ tpc = "launched" /\ ttype = "OPTIMAL"
    /\ \E b \in resident : \E t \in wrote[b] : Len(tlog[b][t]) = 2 * StripLen

\* C10: in the SharedMemory and Optimal kernels no warp reads the shared
\* tile before every thread of its block has finished staging, every cell
\* read in the writeback was written during the staging of the same block
\* execution, and every shared access lies inside the [rows][cols] tile.
C10_BarrierSafe ==
    \A b \in resident : \A t \in TThreads : \A x \in 1 .. Len(tlog[b][t]) :
        LET r == tlog[b][t][x]
        IN  /\ r.acc.op \in {"stage", "wb"} =>
                 /\ r.acc.row \in 0 .. ShRows - 1
                 /\ r.acc.col \in 0 .. ShCols - 1
            /\ r.acc.op = "wb" => r.written /\ r.synced

C10_Witness ==
    \E b \in resident : \E t \in wrote[b] :
        /\ HasBarrier(Kernel)
        /\ \E x \in 1 .. Len(tlog[b][t]) : tlog[b][t][x].acc.op = "wb"
        /\ wrote[b] # KThreads

(***************************************************************************)
(* Properties of the launchers' arithmetic.                                *)
(***************************************************************************)
HThreads == hblocks * hthreads
HProbes == {0, hlen \div 2, hlen - 1}

InRun(x, run) == run[1] <= x /\ x <= run[2]

\* C4 (coverage part): after cudaCallProdScaleKernel's launch every index
\* below padded_length is written by exactly one thread.
C4_EveryIndexOnce ==
    (hpc = "done" /\ hop = "prod") =>
        \A x \in HProbes :
            Cardinality({g \in 0 .. HThreads - 1 :
                            InRun(x, ProdScaleRun(g, hlen, hcount))}) = 1

\* The launches of cudaCallDivideKernel whose window
\* [i * num_threads, (i + 1) * num_threads) holds index x.
DivideLaunchesOf(x) ==
    {i \in {x \div DivNumThreads(hblocks, hthreads)} : i < hcount}

\* C5 (coverage part): after the launches of cudaCallDivideKernel every
\* index below padded_length lies in the window of exactly one launch.
C5_EveryIndexOnce ==
    (hpc = "done" /\ hop = "div") =>
        \A x \in HProbes : Cardinality(DivideLaunchesOf(x)) = 1

(***************************************************************************)
(* Properties of the convolution normalizer.                               *)
(***************************************************************************)
SetMax(S) == CHOOSE m \in S : \A x \in S : x <= m

TrueMax == SetMax({Abs(cout[i][1]) : i \in DOMAIN cout})

\* C2: with GlobalMax initialised to 0, after all launches issued by
\* cudaCallMaximumKernel have completed GlobalMax is the maximum of
\* |out[i].real| over the signal, for every launch geometry.
C2_GlobalMaxIsMax ==
    (CDone /\ cop = "max" /\ gmax0 = 0) => gmax = TrueMax

\* C3: no thread of any launch of the three kernels reads or writes an
\* element of raw_data, impulse_v or out_data at an index >= padded_length.
C3_NoAccessPastLength == coob = {}

\* The closed form ProdScaleRun names exactly the indices the loop of
\* cudaProdScaleKernel writes.
ProdScaleRunIsLoop ==
    (cop = "prod" /\ claunch.kernel = "prod") =>
        \A bt \in CThreads :
            SeqRange(cudaProdScaleKernel(bt[1], cthreads, bt[2], claunch.arg, clen))
              = {i \in 0 .. clen :
                    InRun(i, ProdScaleRun(bt[1] * cthreads + bt[2], clen, claunch.arg))}

\* C4 for lengths a float holds exactly: every index is written once, with
\* the scaled complex product.
C4_ShortLengths ==
    (CDone /\ cop = "prod") =>
        \A i \in DOMAIN cout :
            /\ Len(ctouch[i]) = 1
            /\ cout[i] = ProdScaleValue(craw[i], cimp[i], clen)

\* C5 for lengths a float holds exactly: every index below padded_length
\* is divided once.
C5_ShortLengths ==
    (CDone /\ cop = "div") =>
        \A i \in DOMAIN cout :
            /\ Len(ctouch[i]) = 1
            /\ cout[i][1] = FDiv(cout0[i][1], cdiv)

\* C6: once the atomic merges of all launches have completed, GlobalMax is
\* the maximum of its initial value and all the merged values, whatever the
\* order of the loads and compare-and-swaps.
C6_MergeIsMax ==
    (CDone /\ cop = "max") => gmax = SetMax({gmax0} \cup props)

C6_Witness ==
    /\ CDone /\ cop = "max"
    /\ cblocks >= 2
    /\ Cardinality(props) >= 2
    /\ gmax0 > 0
    /\ gmax > gmax0

\* C8: the divide stage leaves the imaginary component of every sample of
\* out_data as it was before the launches.
C8_ImagUnchanged ==
    cop = "div" => \A i \in DOMAIN cout : cout[i][2] = cout0[i][2]

C8_Witness ==
    /\ CDone /\ cop = "div"
    /\ \A i \in DOMAIN cout : cout[i][1] # cout0[i][1] /\ cout[i][2] = cout0[i][2]

(***************************************************************************)
(* The transpose on matrices of any valid dimension.                       *)
(***************************************************************************)
TileRows == (TileDim * wblock[1]) .. (TileDim * wblock[1] + TileDim - 1)
TileCols == (TileDim * wblock[2]) .. (TileDim * wblock[2] + TileDim - 1)

\* Element (r, c) of d_output holds element (c, r) of d_input.
Transposed(r, c) ==
    \E a \in DOMAIN wout :
        /\ a \div wn = r /\ a % wn = c
        /\ wout[a] >= 0
        /\ wout[a] \div wn = c /\ wout[a] % wn = r

\* C1: for every n that is a positive multiple of 64 and each of the three
\* kernels, when a block has finished every element (i, j) of the tile of
\* d_output it is responsible for holds input[j][i].
C1_EveryValidN ==
    WideDone => \A r \in TileRows : \A c \in TileCols : Transposed(r, c)

\* C1 where n * n fits in int (n <= 46336): the same statement.
C1_WithinIntRange ==
    (WideDone /\ wn <= IntMax \div wn) =>
        \A r \in TileRows : \A c \in TileCols : Transposed(r, c)

\* What the block of the naive kernel leaves in the elements of d_output
\* its addresses reach.
WideCopies ==
    UNION {LET acc == WideAccesses("pre", "naiveTransposeKernel", wn, wblock, WideLanes(w), 1)
           IN  {acc[x] : x \in 1 .. Len(acc)} : w \in TWarps}

WideNaiveOutput ==
    [a \in {c.dst : c \in {d \in WideCopies : InBuffer(wn, d.dst)}} |->
        GRead(win, (CHOOSE c \in WideCopies : c.dst = a).src)]

\* The block leaves the same elements whichever kernel ran, also where the
\* indices wrap.
WideVariantsAgree == WideDone => wout = WideNaiveOutput

(***************************************************************************)
(* Shared-memory banks.  Successive 32-bit words of shared memory lie in   *)
(* successive banks, as many banks as a warp has lanes; shared_mem[r][c]   *)
(* is word ShCols * r + c of the tile.                                     *)
(***************************************************************************)
NumBanks == WarpSize

Bank(r, c) == (ShCols * r + c) % NumBanks

\* The banks the lanes of warp w of block b touch in their x-th shared
\* access, once every lane has made it.
WarpBanks(b, w, x) ==
    [l \in 1 .. WarpSize |->
        LET a == tlog[b][Lanes(w)[l]][x].acc IN Bank(a.row, a.col)]

WarpMade(b, w, x) == \A l \in 1 .. WarpSize : Len(tlog[b][Lanes(w)[l]]) >= x

ConflictFree(banks) == Cardinality({banks[l] : l \in DOMAIN banks}) = Len(banks)

\* C11: in the SharedMemory and Optimal kernels, for every warp and every
\* shared-memory access statement (each staging write and each writeback
\* read) the words the lanes of the warp access lie in distinct banks.
C11_NoBankConflict ==
    (tpc = "launched" /\ HasBarrier(Kernel)) =>
        \A b \in resident : \A w \in KWarps : \A x \in 1 .. 2 * StripLen :
            WarpMade(b, w, x) => ConflictFree(WarpBanks(b, w, x))

\* The staging writes alone are free of bank conflicts.
StagingNoBankConflict ==
    (tpc = "launched" /\ HasBarrier(Kernel)) =>
        \A b \in resident : \A w \in KWarps : \A x \in 1 .. StripLen :
            WarpMade(b, w, x) => ConflictFree(WarpBanks(b, w, x))

(***************************************************************************)
(* Further properties of the maximum reduction.                            *)
(***************************************************************************)
\* The threads of block b that have entered atomicMax in the current launch.
Mergers(b) == {t \in CThreadIds : <<b, t>> \in DOMAIN th /\ th[<<b, t>>].pc \in {"cas", "done"}}

\* C12: in every launch of the maximum kernel the atomic merge of a block
\* is executed by thread 0 only: no other thread of the block enters
\* atomicMax, so a block merges at most once (exactly once when it ends).
C12_OnlyThreadZeroMerges ==
    (cop = "max" /\ claunch.kernel = "max") =>
        \A b \in CBlockIds : Mergers(b) \subseteq {0}

\* The value thread u of block b stages into shmem[u] in the current launch.
Staged(b, u) == MaxStageValue(cout, MaxIdx(claunch.arg, b, cthreads, u), cthreads, clen)

\* All threads of block b stand at the same barrier of the fold loop, n
\* barriers into the kernel.
FoldStepDone(b, n) ==
    \A u \in CThreadIds : th[<<b, u>>].pc = "fold" /\ th[<<b, u>>].nbar = n

\* C13: the fold drops no element, for odd and even block sizes: after every
\* fold step with active count s the maximum of shmem[0 .. s-1] is at least
\* every value the block staged, and the shmem[0] a thread finds when the
\* loop has ended is at least every value the block staged.
C13_NoElementDropped ==
    (cop = "max" /\ claunch.kernel = "max") =>
        \A b \in CBlockIds : \A u \in CThreadIds :
            /\ \A n \in 2 .. cthreads + 1 :
                  FoldStepDone(b, n) =>
                      \E i \in 0 .. th[<<b, 0>>].s - 1 : shmem[b][i] >= Staged(b, u)
            /\ \A t \in CThreadIds :
                  th[<<b, t>>].pc \in {"cas", "done"} => th[<<b, t>>].val >= Staged(b, u)

\* An odd block whose last thread staged the block's largest value has
\* finished folding.
C13_Witness ==
    /\ cop = "max" /\ claunch.kernel = "max"
    /\ cthreads = 3
    /\ \E b \in CBlockIds :
          /\ th[<<b, 0>>].pc = "cas"
          /\ Staged(b, 2) > Staged(b, 0) /\ Staged(b, 2) > Staged(b, 1)
          /\ th[<<b, 0>>].val >= Staged(b, 2)

\* How often x is halved, rounding up, until it is 1.
RECURSIVE Halvings(_)
Halvings(x) == IF x <= 1 THEN 0 ELSE 1 + Halvings((x + 1) \div 2)

\* The barriers a thread of a block of bd threads passes: the one after
\* staging and one per fold step.
BarrierCount(bd) == 1 + (IF bd = 1 THEN 1 ELSE Halvings(bd))

\* Thread t of block b can take its next step.
CanStep(b, t) ==
    \/ th[<<b, t>>].pc \in {"start", "cas"}
    \/ th[<<b, t>>].pc = "fold" /\ AtBarrier(b, t)

\* C14: every barrier of the maximum kernel is reached by all threads of
\* the block: a thread leaves the fold loop with s = 0 after a number of
\* barriers that depends on blockDim.x only, no thread passes more, and a
\* thread waiting at a barrier waits for a thread of its block that has yet
\* to reach that barrier and is able to run.
C14_BarriersReachedByAll ==
    (cop = "max" /\ claunch.kernel = "max") =>
        \A b \in CBlockIds : \A t \in CThreadIds :
            LET me == th[<<b, t>>]
            IN  /\ me.nbar <= BarrierCount(cthreads)
                /\ me.pc \in {"cas", "done"} =>
                      me.s = 0 /\ me.nbar = BarrierCount(cthreads)
                /\ (me.pc = "fold" /\ ~AtBarrier(b, t)) =>
                      \E u \in CThreadIds :
                          th[<<b, u>>].nbar < me.nbar /\ CanStep(b, u)

\* A block of three threads whose threads have all left the fold loop.
C14_Witness ==
    /\ cop = "max" /\ claunch.kernel = "max"
    /\ cthreads = 3
    /\ \E b \in CBlockIds : \A t \in CThreadIds :
          th[<<b, t>>].pc \in {"cas", "done"} /\ th[<<b, t>>].nbar = 3

\* C15: every invocation of atomicMax terminates: a thread in the
\* compare-and-swap loop eventually leaves it, whatever the other threads
\* do to GlobalMax meanwhile, and the launches of cudaCallMaximumKernel run
\* to completion.
C15_MergeTerminates ==
    /\ \A bt \in CAllThreads :
          (cop = "max" /\ bt \in DOMAIN th /\ th[bt].pc = "cas") ~> (bt \in DOMAIN th /\ th[bt].pc = "done")
    /\ (cop = "max") ~> CDone

\* A thread's merge has returned while another thread of the launch holds a
\* stale value of GlobalMax: its next compare-and-swap fails and it retries.
C15_Witness ==
    /\ cop = "max" /\ claunch.kernel = "max"
    /\ \E bt \in CThreads : \E bu \in CThreads :
          /\ th[bt].pc = "done"
          /\ th[bu].pc = "cas" /\ th[bu].old # gmax

\* The threads <<launch, block, thread>> of the launches cudaCallMaximumKernel
\* issued whose idx or idx + blockDim.x is x.  Launch i runs with offset
\* i * offset and reaches the indices i * offset .. (i + 1) * offset - 1 only.
MaxExaminers(x) ==
    LET offset == MaxOffset(hblocks, hthreads)
    IN  {e \in {x \div offset} \X (0 .. hblocks - 1) \X (0 .. hthreads - 1) :
            /\ e[1] < hcount
            /\ LET idx == MaxIdx(e[1] * offset, e[2], hthreads, e[3])
               IN  x \in {idx, idx + hthreads}}

\* C16: cudaCallMaximumKernel issues ceil(padded_length / offset) launches
\* whose windows are disjoint and complete: every index below padded_length
\* is examined by exactly one thread of exactly one launch.
C16_EveryIndexOnce ==
    (hpc = "done" /\ hop = "max") =>
        /\ (hcount - 1) * MaxOffset(hblocks, hthreads) < hlen
        /\ hlen - MaxOffset(hblocks, hthreads) <= (hcount - 1) * MaxOffset(hblocks, hthreads)
        /\ \A x \in HProbes : Cardinality(MaxExaminers(x)) = 1

\* C16 for lengths a float holds exactly: every index below padded_length
\* is loaded once over the launches of the maximum kernel.
C16_ShortLengths ==
    (CDone /\ cop = "max") => \A i \in DOMAIN cout : Len(ctouch[i]) = 1

\* The indices of out_data thread t of block b has written in the launch of
\* cudaProdScaleKernel.
ProcessedBy(b, t) ==
    {i \in DOMAIN ctouch : \E x \in 1 .. Len(ctouch[i]) : ctouch[i][x][2] = b /\ ctouch[i][x][3] = t}

\* C17: a thread of cudaProdScaleKernel with global id g processes the
\* indices g, g + T, g + 2T, ... below padded_length, work_per_thread of
\* them at most, T being the number of threads of the launch.
C17_GridStride ==
    (cop = "prod" /\ claunch.kernel = "prod") =>
        \A bt \in CThreads :
            th[bt].pc = "done" =>
                ProcessedBy(bt[1], bt[2])
                  = {i \in 0 .. clen - 1 :
                        \E k \in 0 .. claunch.arg - 1 :
                            i = (bt[1] * cthreads + bt[2]) + k * (cblocks * cthreads)}

\* C17, as the code has it: a thread of cudaProdScaleKernel with global id g
\* processes the consecutive indices g * work_per_thread ..
\* g * work_per_thread + work_per_thread - 1 that lie below padded_length.
C17_ContiguousChunk ==
    (cop = "prod" /\ claunch.kernel = "prod") =>
        \A bt \in CThreads :
            th[bt].pc = "done" =>
                ProcessedBy(bt[1], bt[2])
                  = {i \in 0 .. clen - 1 :
                        /\ (bt[1] * cthreads + bt[2]) * claunch.arg <= i
                        /\ i < (bt[1] * cthreads + bt[2]) * claunch.arg + claunch.arg}

\* A thread other than the first has processed more than one index in a
\* launch of several threads.
C17_Witness ==
    /\ cop = "prod" /\ claunch.kernel = "prod"
    /\ claunch.arg >= 2
    /\ \E bt \in CThreads :
          /\ bt[1] * cthreads + bt[2] >= 1
          /\ th[bt].pc = "done"
          /\ Cardinality(ProcessedBy(bt[1], bt[2])) >= 2

\* C18: every shared-memory access of cudaMaximumKernel stays inside the
\* blockDim.x floats the launch allocates: no fold step reads
\* shmem[threadIdx.x + s] with threadIdx.x + s >= blockDim.x.
C18_SharedInBounds == soob = {}

\* C18 for the even block sizes (2 and 4 here): the fold reads inside the
\* array.
C18_PowerOfTwoBlocks == (cthreads \in {2, 4}) => \A e \in soob : e[3] < cthreads

\* C19: GlobalMax never decreases while the reduction launches run: every
\* step leaves it as it is or raises it, so it is always at least its
\* initial value and at least the value of every thread whose atomicMax has
\* returned.
C19_GlobalMaxNeverDecreases ==
    /\ [][cop = "max" => gmax' >= gmax]_vars
    /\ [](cop = "max" =>
            /\ gmax >= gmax0
            /\ \A bt \in CAllThreads :
                  (bt \in DOMAIN th /\ th[bt].pc = "done") => gmax >= th[bt].val)

\* Merges have raised GlobalMax above a positive initial value past the
\* value of a thread that has returned, and another thread is still in the
\* loop of atomicMax.
C19_Witness ==
    /\ cop = "max" /\ claunch.kernel = "max"
    /\ gmax0 > 0 /\ gmax > gmax0
    /\ \E bt \in CThreads : th[bt].pc = "done" /\ th[bt].val < gmax
    /\ \E bu \in CThreads : th[bu].pc = "cas"

\* Two accesses of one shared cell by different threads of a block, one of
\* them a write.
Conflicting(a, c) ==
    /\ a.b = c.b /\ a.cell = c.cell /\ a.t # c.t
    /\ (a.op = "w" \/ c.op = "w")

\* C20: cudaMaximumKernel has no shared-memory data race.  Conflicting
\* accesses are never made between the same two barriers; an access made
\* after a barrier finds every thread of the block at that barrier or past
\* it, so the accesses made before it are complete; and the shmem[0] a
\* thread hands to atomicMax is the one the last fold step left.
C20_NoSharedRace ==
    (cop = "max" /\ claunch.kernel = "max") =>
        /\ \A a \in slog : \A c \in slog : Conflicting(a, c) => a.nbar # c.nbar
        /\ \A a \in slog : \A u \in CThreadIds : th[<<a.b, u>>].nbar >= a.nbar
        /\ \A bt \in CThreads :
              th[bt].pc \in {"cas", "done"} => th[bt].val = shmem[bt[1]][0]

\* Two threads of a block were active in one fold step, each reading a cell
\* the other threads staged, and a thread other than thread 0 has read
\* shmem[0] for its merge.
C20_Witness ==
    /\ cop = "max" /\ claunch.kernel = "max"
    /\ \E a \in slog : \E c \in slog :
          /\ a.b = c.b /\ a.t # c.t /\ a.nbar = c.nbar /\ a.nbar >= 1
          /\ a.op = "w" /\ c.op = "w"
    /\ \E a \in slog : a.op = "r" /\ a.cell = 0 /\ a.t # 0 /\ th[<<a.b, a.t>>].pc \in {"cas", "done"}

====
